---- MODULE Spec2Model ----
(***************************************************************************)
(* A model of the memory-capped LRU cache of src/cache.go: the Cache       *)
(* (index, recency list, byte counter, ticker), its Entries, the callers   *)
(* of Read / Set / StartEviction / StopEviction and the background         *)
(* eviction goroutines that StartEviction spawns.                          *)
(*                                                                         *)
(* Granularity.  Everything a caller does between c.Lock() and c.Unlock()  *)
(* is one step: the cache-wide mutex makes it atomic towards every other   *)
(* holder, and the accesses that bypass the mutex (Entry.Update writing    *)
(* e.data / e.expiration, the goroutine reading c.ticker) are steps of     *)
(* their own, so each racing read sees the old or the new value.  The      *)
(* background pass keeps the mutex over several steps (one per loop        *)
(* iteration), because Entry.Update can run between two iterations.        *)
(***************************************************************************)
EXTENDS Integers, Sequences, FiniteSets, TLC

\* ------------------------------------------------------------------ bounds
Keys    == {"a", "b"}
Values  == {<<1>>, <<2, 2>>}
Threads == {1, 2}
Limits  == {0, 2}

MaxClock  == 2
MaxStarts == 2
MaxCalls  == 4

Exps == 1..MaxClock

\* bytesReferenced is a uint64; the width is scaled down to one TLC's integers hold.
UintMod == 2^16

Nil == 0
EntryIds   == 1..(Cardinality(Keys) + Cardinality(Threads))
Goroutines == 1..MaxStarts

VARIABLES
  data,             \* Cache.data: key -> *Entry (Nil when the key is not in the map)
  heap,             \* the Entry objects: id -> [key, data, expiration, lock]
  lru,              \* Cache.lru: the list elements, front first (element id = entry id)
  bytesReferenced,  \* Cache.bytesReferenced
  ticker,           \* Cache.ticker: Nil or a ticker
  mutex,            \* Cache.Mutex: Nil or the goroutine running a pass
  now,              \* what Clock.Now() returns
  tickers,          \* the time.Ticker objects: id -> [running, ch]
  gpc, gchan, glimit, \* the goroutines of StartEviction: position, channel ranged over, memoryLimit
  pc, arg,          \* the callers: position and locals of the call in progress
  calls,            \* calls issued so far
  \* observations (never read by the program)
  ret,              \* what the step just taken returned to its caller
  alone,            \* alone[t]: no other step was taken since t's call in progress began
  pend,             \* the Set that returned last, while only one Read of its key has run since
  inserted,         \* the keys set so far, while every call so far was a Set of a fresh key
  pass,             \* the shrink pass in progress, or the one the step just taken finished
  touched           \* the keys in the order of their last touch, latest first

vars == <<data, heap, lru, bytesReferenced, ticker, mutex, now, tickers,
          gpc, gchan, glimit, pc, arg, calls,
          ret, alone, pend, inserted, pass, touched>>

\* ----------------------------------------------------------------- values
NoEntry == [key |-> "", data |-> <<>>, expiration |-> 0, lock |-> Nil]
NoArg   == [op |-> "none", key |-> "", value |-> <<>>, expiration |-> 0, e |-> Nil]
NoRet   == [op |-> "none", thread |-> 0, key |-> "", absent |-> FALSE, val |-> <<>>, err |-> FALSE]
NoPend  == [key |-> "", value |-> <<>>, expiration |-> 0, existed |-> FALSE, solo |-> FALSE, reader |-> -1]
NoPass  == [g |-> 0, limit |-> 0, start |-> 0, startLen |-> 0, evicted |-> <<>>, done |-> FALSE]
NoValue == <<>>
NoTicker == [running |-> FALSE, ch |-> 0]

Returned(op, t, k) == [op |-> op, thread |-> t, key |-> k, absent |-> FALSE, val |-> <<>>, err |-> FALSE]
Absent(t, k)       == [op |-> "Read", thread |-> t, key |-> k, absent |-> TRUE, val |-> <<>>, err |-> FALSE]
Payload(t, k, v)   == [op |-> "Read", thread |-> t, key |-> k, absent |-> FALSE, val |-> v, err |-> FALSE]
Failed(op, t)      == [op |-> op, thread |-> t, key |-> "", absent |-> FALSE, val |-> <<>>, err |-> TRUE]

\* ------------------------------------------------------- container/list
SeqRemove(s, x) == SelectSeq(s, LAMBDA y : y /= x)
InSeq(s, x) == \E i \in 1..Len(s) : s[i] = x

\* list.Remove(e): a no-op when e is not an element of the list
ListRemoveSkipped(l, e) == l
ListRemove(l, e) == SeqRemove(l, e)
\* list.MoveToFront(e): a no-op when e is not an element of the list
MoveToFrontSkipped(l, e) == l
MoveToFront(l, e) == IF InSeq(l, e) THEN <<e>> \o SeqRemove(l, e) ELSE l
PushFront(l, e) == <<e>> \o l
Back(l) == l[Len(l)]

\* --------------------------------------------------------------- helpers
\* time.Time.Before
NotAfter(t, u) == t <= u
Before(t, u) == t < u

\* Read's expiry test, e.expiration.Before(c.clock.Now())
Expired(e) == Before(heap[e].expiration, now)

\* markEntryTouched: the handle is never nil for an entry Set created
MarkEntryTouchedSkipped(l, e) == l
MarkEntryTouched(l, e) == IF e /= Nil THEN MoveToFront(l, e) ELSE l

\* c.bytesReferenced += uint64(len(value))
AddBytesOverwriting(b, v) == Len(v) % UintMod
AddBytes(b, v) == (b + Len(v)) % UintMod
\* c.bytesReferenced -= uint64(len(entry.data))
SubBytes(b, v) == (b - Len(v)) % UintMod

\* the loop condition of the shrink pass
AtOrOverLimit(b, limit, l) == b >= limit /\ Len(l) > 0
OverLimit(b, limit, l) == b > limit /\ Len(l) > 0

\* Entry.Update, e.data = value, with the entry's write lock taken by thread t
UpdateDataDropped(h, e, t, v) == [h EXCEPT ![e].lock = t]
UpdateData(h, e, t, v) == [h EXCEPT ![e].lock = t, ![e].data = v]
\* Entry.Update, e.expiration = expiration, and the write lock released
UpdateExpiration(h, e, x) == [h EXCEPT ![e].lock = Nil, ![e].expiration = x]

\* An Entry nothing refers to any more is garbage: its id is free again.
Referenced(i, d, l, p, a) ==
  \/ \E k \in Keys : d[k] = i
  \/ InSeq(l, i)
  \/ \E t \in Threads : p[t] /= "idle" /\ a[t].e = i
Collect(h, d, l, p, a) ==
  [i \in EntryIds |-> IF Referenced(i, d, l, p, a) THEN h[i] ELSE NoEntry]
NewEntry == CHOOSE i \in EntryIds :
              /\ heap[i] = NoEntry
              /\ \A j \in EntryIds : heap[j] = NoEntry => i <= j

\* StartEviction's test, c.ticker != nil
NeverStarted == FALSE
AlwaysStarted == TRUE
Started == ticker /= Nil

Panicked == \E g \in Goroutines : gpc[g] = "panic"
Idle(t) == pc[t] = "idle"
CanCall(t) == ~Panicked /\ Idle(t) /\ calls < MaxCalls

\* ---------------------------------------------------------- observations
TouchedBy(k, by) == <<[key |-> k, by |-> by]>> \o SelectSeq(touched, LAMBDA x : x.key /= k)

\* a finished pass is shown for one state only
KeepPass == IF pass.done THEN NoPass ELSE pass

NoInserted == [pure |-> FALSE, vals |-> [k \in Keys |-> NoValue], by |-> [k \in Keys |-> 0]]

\* actor: the thread (1, 2), or 0 for the goroutines, the timers and the clock.
\* r: what the step returns (NoRet when it returns nothing yet).
\* call: the call the step begins (NoArg when it begins none).
Observe(actor, r, call, p, tch) ==
  /\ ret' = r
  /\ alone' = [t \in Threads |->
                 IF pc'[t] = "idle" THEN TRUE
                 ELSE IF t = actor THEN (IF pc[t] = "idle" THEN TRUE ELSE alone[t])
                 ELSE FALSE]
  /\ pend' = IF r.op = "Set"
               THEN [key |-> r.key, value |-> r.val, expiration |-> IF call.op = "Set" THEN call.expiration ELSE arg[actor].expiration,
                     existed |-> (call.op = "none"),
                     solo |-> (call.op = "Set" \/ alone[actor]), reader |-> 0]
             ELSE IF call.op = "Read" /\ pend.reader = 0 /\ pend.key = call.key
               THEN [pend EXCEPT !.reader = actor]
             ELSE IF call.op = "none" /\ actor /= 0 /\ pend.reader = actor
               THEN pend
             ELSE NoPend
  /\ inserted' = IF call.op = "Set" /\ inserted.pure /\ inserted.vals[call.key] = NoValue
                   THEN [inserted EXCEPT !.vals[call.key] = call.value, !.by[call.key] = actor]
                 ELSE IF call.op = "none" /\ inserted.pure
                   THEN inserted
                 ELSE NoInserted
  /\ pass' = p
  /\ touched' = tch

\* ------------------------------------------------------------------ Init
Init ==
  /\ data = [k \in Keys |-> Nil]
  /\ heap = [i \in EntryIds |-> NoEntry]
  /\ lru = <<>>
  /\ bytesReferenced = 0
  /\ ticker = Nil
  /\ mutex = Nil
  /\ now = 0
  /\ tickers = [n \in Goroutines |-> NoTicker]
  /\ gpc = [g \in Goroutines |-> "none"]
  /\ gchan = [g \in Goroutines |-> Nil]
  /\ glimit = [g \in Goroutines |-> 0]
  /\ pc = [t \in Threads |-> "idle"]
  /\ arg = [t \in Threads |-> NoArg]
  /\ calls = 0
  /\ ret = NoRet
  /\ alone = [t \in Threads |-> TRUE]
  /\ pend = NoPend
  /\ inserted = [NoInserted EXCEPT !.pure = TRUE]
  /\ pass = NoPass
  /\ touched = <<>>

\* --------------------------------------------------------------- Cache.Read
\* Lines 58-74: the part of Read under the cache-wide mutex.  The thread keeps
\* the Entry it found and the expiration it tested at line 66.
Read(t, k) ==
  /\ CanCall(t)
  /\ mutex = Nil
  /\ calls' = calls + 1
  /\ UNCHANGED <<bytesReferenced, ticker, mutex, now, tickers, gpc, gchan, glimit>>
  /\ LET e == data[k]
         call == [NoArg EXCEPT !.op = "Read", !.key = k]
     IN IF e = Nil
          THEN /\ UNCHANGED <<data, heap, lru, pc, arg>>
               /\ Observe(t, Absent(t, k), call, KeepPass, touched)
        ELSE IF Expired(e)
          THEN /\ lru' = ListRemove(lru, e)
               /\ data' = [data EXCEPT ![k] = Nil]
               /\ UNCHANGED <<pc, arg>>
               /\ heap' = Collect(heap, data', lru', pc', arg')
               /\ Observe(t, Absent(t, k), call, KeepPass, touched)
        ELSE   /\ lru' = MoveToFront(lru, e)
               /\ pc' = [pc EXCEPT ![t] = "EntryRead"]
               /\ arg' = [arg EXCEPT ![t] = [call EXCEPT !.e = e,
                                                       !.expiration = heap[e].expiration]]
               /\ UNCHANGED <<data, heap>>
               /\ Observe(t, NoRet, call, KeepPass, TouchedBy(k, "Read"))

\* Line 76, Entry.Read: the payload, read under the entry's read lock.
EntryRead(t) ==
  /\ ~Panicked
  /\ pc[t] = "EntryRead"
  /\ heap[arg[t].e].lock = Nil
  /\ pc' = [pc EXCEPT ![t] = "idle"]
  /\ arg' = [arg EXCEPT ![t] = NoArg]
  /\ heap' = Collect(heap, data, lru, pc', arg')
  /\ UNCHANGED <<data, lru, bytesReferenced, ticker, mutex, now, tickers, gpc, gchan, glimit, calls>>
  /\ Observe(t, Payload(t, arg[t].key, heap[arg[t].e].data), NoArg, KeepPass, touched)

\* ---------------------------------------------------------------- Cache.Set
\* Lines 81-85 and 90-101: the part of Set under the cache-wide mutex.
Set(t, k, v, x) ==
  /\ CanCall(t)
  /\ mutex = Nil
  /\ calls' = calls + 1
  /\ UNCHANGED <<ticker, mutex, now, tickers, gpc, gchan, glimit>>
  /\ LET e == data[k]
         call == [NoArg EXCEPT !.op = "Set", !.key = k, !.value = v, !.expiration = x]
     IN IF e /= Nil
          THEN /\ lru' = MarkEntryTouched(lru, e)
               /\ pc' = [pc EXCEPT ![t] = "Update"]
               /\ arg' = [arg EXCEPT ![t] = [call EXCEPT !.e = e]]
               /\ UNCHANGED <<data, heap, bytesReferenced>>
               /\ Observe(t, NoRet, call, KeepPass, TouchedBy(k, "Set"))
          ELSE /\ lru' = PushFront(lru, NewEntry)
               /\ data' = [data EXCEPT ![k] = NewEntry]
               /\ heap' = [heap EXCEPT ![NewEntry] =
                             [key |-> k, data |-> v, expiration |-> x, lock |-> Nil]]
               /\ bytesReferenced' = AddBytes(bytesReferenced, v)
               /\ UNCHANGED <<pc, arg>>
               /\ Observe(t, [Returned("Set", t, k) EXCEPT !.val = v], call, KeepPass, TouchedBy(k, "Set"))

\* Line 89, Entry.Update lines 32-35: take the entry's write lock, store the payload.
EntryUpdateData(t) ==
  /\ ~Panicked
  /\ pc[t] = "Update"
  /\ heap[arg[t].e].lock = Nil
  /\ heap' = UpdateData(heap, arg[t].e, t, arg[t].value)
  /\ pc' = [pc EXCEPT ![t] = "UpdateExp"]
  /\ UNCHANGED <<data, lru, bytesReferenced, ticker, mutex, now, tickers, gpc, gchan, glimit, arg, calls>>
  /\ Observe(t, NoRet, NoArg, KeepPass, touched)

\* Entry.Update lines 36-37: store the expiration, release the write lock; Set returns.
EntryUpdateExp(t) ==
  /\ ~Panicked
  /\ pc[t] = "UpdateExp"
  /\ pc' = [pc EXCEPT ![t] = "idle"]
  /\ arg' = [arg EXCEPT ![t] = NoArg]
  /\ heap' = Collect(UpdateExpiration(heap, arg[t].e, arg[t].expiration), data, lru, pc', arg')
  /\ UNCHANGED <<data, lru, bytesReferenced, ticker, mutex, now, tickers, gpc, gchan, glimit, calls>>
  /\ Observe(t, [Returned("Set", t, arg[t].key) EXCEPT !.val = arg[t].value], NoArg, KeepPass, touched)

\* ------------------------------------------------ StartEviction / StopEviction
NewTicker == CHOOSE n \in Goroutines :
               /\ gpc[n] = "none"
               /\ \A m \in Goroutines : gpc[m] = "none" => n <= m

\* Lines 114-135 (the goroutine's body is GoRange .. GoUnlock).
StartEviction(t, limit) ==
  /\ CanCall(t)
  /\ mutex = Nil
  /\ calls' = calls + 1
  /\ UNCHANGED <<data, heap, lru, bytesReferenced, mutex, now, gchan, pc, arg>>
  /\ IF Started
       THEN /\ UNCHANGED <<ticker, tickers, gpc, glimit>>
            /\ Observe(t, Failed("StartEviction", t), [NoArg EXCEPT !.op = "StartEviction"], KeepPass, touched)
       ELSE /\ \E n \in Goroutines : gpc[n] = "none"
            /\ ticker' = NewTicker
            /\ tickers' = [tickers EXCEPT ![NewTicker] = [running |-> TRUE, ch |-> 0]]
            /\ gpc' = [gpc EXCEPT ![NewTicker] = "range"]
            /\ glimit' = [glimit EXCEPT ![NewTicker] = limit]
            /\ Observe(t, Returned("StartEviction", t, ""), [NoArg EXCEPT !.op = "StartEviction"], KeepPass, touched)

\* Lines 140-146.  Ticker.Stop sends no further tick and leaves the channel as it
\* is: the tick the timer sent last is still in its slot (ch = 1) unless the timer
\* had sent none since the last receive (ch = 0).
StopEviction(t) ==
  /\ CanCall(t)
  /\ mutex = Nil
  /\ calls' = calls + 1
  /\ UNCHANGED <<data, heap, lru, bytesReferenced, mutex, now, gpc, gchan, glimit, pc, arg>>
  /\ IF ticker /= Nil
       THEN /\ \E pending \in {0, 1} :
                 tickers' = [tickers EXCEPT ![ticker] = [running |-> FALSE, ch |-> pending]]
            /\ ticker' = Nil
       ELSE UNCHANGED <<ticker, tickers>>
  /\ Observe(t, Returned("StopEviction", t, ""), [NoArg EXCEPT !.op = "StopEviction"], KeepPass, touched)

\* ------------------------------------------------------------ the clock
\* Clock.Now() with no fixed instant is the wall clock, which advances.
AdvanceClock ==
  /\ ~Panicked
  /\ now < MaxClock
  /\ now' = now + 1
  /\ UNCHANGED <<data, heap, lru, bytesReferenced, ticker, mutex, tickers, gpc, gchan, glimit, pc, arg, calls>>
  /\ Observe(0, NoRet, NoArg, KeepPass, touched)

\* ------------------------------------------------ the eviction goroutine
\* Line 123, "range c.ticker.C": the goroutine reads c.ticker, without the mutex,
\* when it is first scheduled; a nil ticker is a nil dereference.
GoRange(g) ==
  /\ ~Panicked
  /\ gpc[g] = "range"
  /\ IF ticker = Nil
       THEN gpc' = [gpc EXCEPT ![g] = "panic"] /\ UNCHANGED gchan
       ELSE gpc' = [gpc EXCEPT ![g] = "recv"] /\ gchan' = [gchan EXCEPT ![g] = ticker]
  /\ UNCHANGED <<data, heap, lru, bytesReferenced, ticker, mutex, now, tickers, glimit, pc, arg, calls>>
  /\ Observe(0, NoRet, NoArg, KeepPass, touched)

\* Line 123: receive a tick from the channel.  A running ticker sends one every
\* checkInterval, so a receive from it succeeds sooner or later; a stopped one
\* delivers only the tick left in the slot.
GoRecv(g) ==
  /\ ~Panicked
  /\ gpc[g] = "recv"
  /\ tickers[gchan[g]].running \/ tickers[gchan[g]].ch = 1
  /\ tickers' = [tickers EXCEPT ![gchan[g]].ch = 0]
  /\ gpc' = [gpc EXCEPT ![g] = "lock"]
  /\ UNCHANGED <<data, heap, lru, bytesReferenced, ticker, mutex, now, gchan, glimit, pc, arg, calls>>
  /\ Observe(0, NoRet, NoArg, KeepPass, touched)

\* Line 124: c.Lock(); the pass begins.
GoLock(g) ==
  /\ ~Panicked
  /\ gpc[g] = "lock"
  /\ mutex = Nil
  /\ mutex' = g
  /\ gpc' = [gpc EXCEPT ![g] = "loop"]
  /\ UNCHANGED <<data, heap, lru, bytesReferenced, ticker, now, tickers, gchan, glimit, pc, arg, calls>>
  /\ Observe(0, NoRet, NoArg,
             [g |-> g, limit |-> glimit[g], start |-> bytesReferenced, startLen |-> Len(lru),
              evicted |-> <<>>, done |-> FALSE],
             touched)

\* Lines 125-130: one iteration of the loop.
GoEvict(g) ==
  /\ ~Panicked
  /\ gpc[g] = "loop"
  /\ OverLimit(bytesReferenced, glimit[g], lru)
  /\ LET entryKey == heap[Back(lru)].key
         entry == data[entryKey]
     IN /\ lru' = ListRemove(lru, Back(lru))
        /\ IF entry = Nil
             THEN /\ gpc' = [gpc EXCEPT ![g] = "panic"]
                  /\ UNCHANGED <<data, bytesReferenced>>
             ELSE /\ bytesReferenced' = SubBytes(bytesReferenced, heap[entry].data)
                  /\ data' = [data EXCEPT ![entryKey] = Nil]
                  /\ UNCHANGED gpc
        /\ heap' = Collect(heap, data', lru', pc, arg)
        /\ UNCHANGED <<ticker, mutex, now, tickers, gchan, glimit, pc, arg, calls>>
        /\ Observe(0, NoRet, NoArg, [pass EXCEPT !.evicted = Append(@, entryKey)], touched)

\* Lines 125 and 131: the loop condition fails, c.Unlock(); the pass is over.
GoUnlock(g) ==
  /\ ~Panicked
  /\ gpc[g] = "loop"
  /\ ~OverLimit(bytesReferenced, glimit[g], lru)
  /\ mutex' = Nil
  /\ gpc' = [gpc EXCEPT ![g] = "recv"]
  /\ UNCHANGED <<data, heap, lru, bytesReferenced, ticker, now, tickers, gchan, glimit, pc, arg, calls>>
  /\ Observe(0, NoRet, NoArg, [pass EXCEPT !.done = TRUE], touched)

\* ------------------------------------------------------------------ Next
Next ==
  \/ \E t \in Threads, k \in Keys : Read(t, k)
  \/ \E t \in Threads : EntryRead(t)
  \/ \E t \in Threads, k \in Keys, v \in Values, x \in Exps : Set(t, k, v, x)
  \/ \E t \in Threads : EntryUpdateData(t)
  \/ \E t \in Threads : EntryUpdateExp(t)
  \/ \E t \in Threads, limit \in Limits : StartEviction(t, limit)
  \/ \E t \in Threads : StopEviction(t)
  \/ AdvanceClock
  \/ \E g \in Goroutines : GoRange(g)
  \/ \E g \in Goroutines : GoRecv(g)
  \/ \E g \in Goroutines : GoLock(g)
  \/ \E g \in Goroutines : GoEvict(g)
  \/ \E g \in Goroutines : GoUnlock(g)

Spec == Init /\ [][Next]_vars

\* ---------------------------------------------------------------- claims
RECURSIVE SumLen(_, _)
\* the sum of Len(f[k]) over the keys of S
SumLen(S, f) ==
  IF S = {} THEN 0
  ELSE LET k == CHOOSE x \in S : TRUE IN Len(f[k]) + SumLen(S \ {k}, f)

Present == {k \in Keys : data[k] /= Nil}
PayloadOf == [k \in Keys |-> IF data[k] = Nil THEN <<>> ELSE heap[data[k]].data]
Quiescent == mutex = Nil /\ \A t \in Threads : pc[t] = "idle"

\* where key k stands in the touch order (1 = touched last; 0 = never touched)
TouchPos(k) ==
  IF \E i \in 1..Len(touched) : touched[i].key = k
    THEN CHOOSE i \in 1..Len(touched) : touched[i].key = k
    ELSE 0

\* the step taken begins Read(k) by thread t
BeginsRead(t, k) ==
  /\ pc[t] = "idle"
  /\ calls' = calls + 1
  /\ \/ ret'.op = "Read" /\ ret'.thread = t /\ ret'.key = k
     \/ pc'[t] = "EntryRead" /\ arg'[t].key = k

\* C1: with no call and no pass in progress, bytesReferenced equals the sum of
\* len(data) over the entries in the index.
C1_BytesEqualSum == Quiescent => bytesReferenced = SumLen(Present, PayloadOf)

\* C2: a Read(k) issued right after a Set(k, v, exp) that ran undisturbed, with
\* exp later than now and nothing in between, returns exactly v, for a new key and
\* for a key that was present.
C2_SetThenRead ==
  (ret.op = "Read" /\ pend.reader = ret.thread /\ pend.solo /\ pend.expiration > now)
    => (~ret.absent /\ ret.val = pend.value)
C2_Witness ==
  /\ ret.op = "Read" /\ pend.reader = ret.thread /\ pend.solo /\ pend.expiration > now
  /\ pend.existed
  /\ ret.val = <<2, 2>>

C4_PurgeFreesBytes ==
  [][\A t \in Threads, k \in Keys :
       (BeginsRead(t, k) /\ data[k] /= Nil /\ heap[data[k]].expiration < now)
         => /\ data' = [data EXCEPT ![k] = Nil]
            /\ lru' = SeqRemove(lru, data[k])
            /\ bytesReferenced' = bytesReferenced - Len(heap[data[k]].data)
            /\ \A i \in EntryIds \ {data[k]} : heap'[i] = heap[i]]_vars

\* C5: when a shrink pass with target T finishes, bytesReferenced <= T or the
\* cache is empty; a pass that started with bytesReferenced <= T evicted nothing.
C5_ShrinkReachesTarget ==
  pass.done =>
    /\ bytesReferenced <= pass.limit \/ (Len(lru) = 0 /\ Present = {})
    /\ pass.start <= pass.limit => pass.evicted = <<>>
C5_Witness ==
  /\ pass.done
  /\ Len(pass.evicted) = 1
  /\ Len(lru) = 1
  /\ bytesReferenced <= pass.limit

\* C6: every key a shrink pass evicts was touched (Set, or Read that found a valid
\* entry) less recently than every key the pass leaves in the cache, and the pass
\* evicts in the order of the touches, the oldest first.
C6_EvictsLeastRecentlyTouched ==
  /\ \A i \in 1..Len(pass.evicted) : \A k \in Present :
       TouchPos(k) > 0 /\ TouchPos(k) < TouchPos(pass.evicted[i])
  /\ \A i, j \in 1..Len(pass.evicted) :
       i < j => TouchPos(pass.evicted[j]) < TouchPos(pass.evicted[i])
\* Set(a); Set(b); Read(a); then a pass that evicts exactly one entry: b goes, a stays
C6_Witness ==
  /\ pass.done
  /\ pass.evicted = <<"b">>
  /\ data["a"] /= Nil
  /\ touched = <<[key |-> "a", by |-> "Read"], [key |-> "b", by |-> "Set"]>>

\* C7: once Set(k, v, exp) on a key that was present has returned, with exp later
\* than now, a Read(k) issued next (no pass, no clock advance, no other step in
\* between) returns v, whatever ran concurrently with that Set.
C7_ReadAfterConcurrentSet ==
  (ret.op = "Read" /\ pend.reader = ret.thread /\ pend.existed /\ pend.expiration > now)
    => (~ret.absent /\ ret.val = pend.value)

\* C8: while the only calls so far are Sets of pairwise distinct keys (no eviction
\* was started), every key set is in the index with the value set, and
\* bytesReferenced is the sum of the lengths of the values set.
C8_ConcurrentInserts ==
  inserted.pure =>
    /\ \A k \in Keys : inserted.by[k] /= 0 =>
         data[k] /= Nil /\ heap[data[k]].data = inserted.vals[k]
    /\ bytesReferenced = SumLen({k \in Keys : inserted.by[k] /= 0}, inserted.vals)
C8_Witness ==
  /\ inserted.pure
  /\ inserted.by["a"] /= 0 /\ inserted.by["b"] /= 0
  /\ inserted.by["a"] /= inserted.by["b"]

\* C9: after StopEviction has returned (c.ticker is nil) no background pass
\* begins: no goroutine holds the cache-wide mutex while the eviction is stopped.
C9_NoPassAfterStop == ticker = Nil => mutex = Nil

\* C10: StartEviction called while a background task is active returns an error,
\* starts no second task, and leaves the task, the index, the recency list and
\* bytesReferenced unchanged.
C10_StartWhileRunning ==
  [][(ret'.op = "StartEviction" /\ calls' = calls + 1 /\ ticker /= Nil)
       => /\ ret'.err
          /\ UNCHANGED <<ticker, tickers, gpc, gchan, glimit, data, heap, lru, bytesReferenced>>]_vars
C10_Witness ==
  /\ ret.op = "StartEviction" /\ ret.err
  /\ ticker /= Nil

\* a goroutine that ranges over the channel of a ticker that is running: it
\* receives ticks and runs shrink passes
Active(g) == gpc[g] \in {"recv", "lock", "loop"} /\ tickers[gchan[g]].running

\* C11: in every reachable state at most one background eviction task is active,
\* whatever the sequence of StartEviction and StopEviction calls.
C11_AtMostOneTask == Cardinality({g \in Goroutines : Active(g)}) <= 1

\* C12: StopEviction leaves the task stopped; with no task running it changes
\* nothing (so a second StopEviction leaves the state of the first); and a
\* StartEviction issued while the task is stopped succeeds: no error, a running
\* ticker and a new goroutine.
C12_StopIdempotentRestart ==
  [][/\ (ret'.op = "StopEviction" /\ calls' = calls + 1)
          => /\ ticker' = Nil
             /\ \A n \in Goroutines : ~tickers'[n].running
             /\ ticker = Nil =>
                  UNCHANGED <<ticker, tickers, gpc, gchan, glimit, data, heap, lru,
                              bytesReferenced, mutex, now, pc, arg>>
     /\ (ret'.op = "StartEviction" /\ calls' = calls + 1 /\ ticker = Nil)
          => /\ ~ret'.err
             /\ ticker' /= Nil
             /\ tickers'[ticker'].running
             /\ gpc[ticker'] = "none" /\ gpc'[ticker'] = "range"]_vars
\* StartEviction has succeeded a second time: a StopEviction came in between
C12_Witness ==
  /\ ret.op = "StartEviction" /\ ~ret.err
  /\ ticker = 2
  /\ ~tickers[1].running

\* C13: no interleaving reaches a panic: the goroutine never dereferences a nil
\* c.ticker, and every key a pass takes from the back of the recency list has an
\* Entry in the index.
C13_NoPanic ==
  /\ ~Panicked
  /\ \A g \in Goroutines :
       (gpc[g] = "loop" /\ Len(lru) > 0) => data[heap[Back(lru)].key] /= Nil

\* C14: a pass of the task started with limit 0 leaves no key behind: when such
\* a pass has released the lock, every key set before is absent.  (The claim's
\* "eventually" is reached at the end of the first pass or never: a pass that
\* stops with keys left finds the same counter at every later tick.)
C14_LimitZeroEmpties ==
  (pass.done /\ pass.limit = 0) => Present = {}

\* C15: whenever the cache-wide mutex is free, the index and the recency list
\* hold the same keys: every key of the index has its Entry's element in the
\* list exactly once, and every element of the list is the element of the Entry
\* the index holds for that element's key.
C15_IndexMatchesList ==
  mutex = Nil =>
    /\ \A k \in Keys : data[k] /= Nil =>
         /\ heap[data[k]].key = k
         /\ Cardinality({i \in 1..Len(lru) : lru[i] = data[k]}) = 1
    /\ \A i \in 1..Len(lru) : data[heap[lru[i]].key] = lru[i]
    /\ \A i, j \in 1..Len(lru) : heap[lru[i]].key = heap[lru[j]].key => i = j
\* a Read has just purged or missed a key set earlier, and the other key is
\* still held by both structures
C15_Witness ==
  /\ mutex = Nil
  /\ ret.op = "Read" /\ ret.absent /\ TouchPos(ret.key) > 0
  /\ Len(lru) = 1
  /\ Cardinality(Present) = 1

\* C16: the payload Read returns is the payload of the update whose expiration
\* Read tested: when Entry.Read returns, the Entry still carries the expiration
\* tested at line 66.
C16_PayloadOfCheckedExpiration ==
  [][\A t \in Threads :
       (pc[t] = "EntryRead" /\ pc'[t] = "idle")
         => heap[arg[t].e].expiration = arg[t].expiration]_vars

\* C17: Set of a key the index holds moves the key's element to the front of
\* the list and keeps the order of the others, writes payload and expiration
\* into the key's Entry, and changes neither bytesReferenced nor the index;
\* Set of a new key adds len(value) to bytesReferenced, and no other step of a
\* caller changes the counter.
C17_SetExistingFrame ==
  [][/\ \A t \in Threads :
          /\ (pc[t] = "idle" /\ pc'[t] = "Update")
               => /\ data[arg'[t].key] = arg'[t].e
                  /\ lru'[1] = arg'[t].e
                  /\ Len(lru') = Len(lru)
                  /\ SeqRemove(lru', arg'[t].e) = SeqRemove(lru, arg'[t].e)
                  /\ UNCHANGED <<data, heap, bytesReferenced>>
          /\ (pc[t] = "Update" /\ pc'[t] = "UpdateExp")
               => /\ heap'[arg[t].e].data = arg[t].value
                  /\ UNCHANGED <<data, lru, bytesReferenced>>
          /\ (pc[t] = "UpdateExp" /\ pc'[t] = "idle")
               => /\ data[arg[t].key] = arg[t].e
                       => /\ heap'[arg[t].e].data = arg[t].value
                          /\ heap'[arg[t].e].expiration = arg[t].expiration
                  /\ UNCHANGED <<data, lru, bytesReferenced>>
     /\ (ret'.op = "Set" /\ calls' = calls + 1)
          => /\ data[ret'.key] = Nil
             /\ bytesReferenced' = (bytesReferenced + Len(ret'.val)) % UintMod
     /\ bytesReferenced' /= bytesReferenced
          => \/ ret'.op = "Set" /\ calls' = calls + 1
             \/ mutex /= Nil]_vars
\* two one-byte keys, then the older one overwritten by two bytes: it is at the
\* front with the new payload and the counter still reads 2
C17_Witness ==
  /\ ret.op = "Set" /\ pend.existed
  /\ Len(lru) = 2
  /\ lru[1] = data[ret.key]
  /\ heap[lru[1]].data = <<2, 2>>
  /\ heap[lru[2]].data = <<1>>
  /\ bytesReferenced = 2

\* C18: bytesReferenced never wraps below zero: whenever a pass is about to
\* evict the entry at the back of the list, the length of that entry's payload
\* is at most bytesReferenced.
C18_NoWrap ==
  \A g \in Goroutines :
    (gpc[g] = "loop" /\ OverLimit(bytesReferenced, glimit[g], lru)
       /\ data[heap[Back(lru)].key] /= Nil)
      => Len(heap[data[heap[Back(lru)].key]].data) <= bytesReferenced

\* thread t is at the call of Entry.Update or Entry.Read, about to take the lock
\* of the Entry it found
WaitsForEntry(t) == pc[t] \in {"Update", "EntryRead"}

\* C19: an entry's lock is held only by a thread inside Entry.Update, which has
\* released the cache-wide mutex, and no waiter is stuck: a thread at an
\* entry's lock can take it when it is free, and otherwise its holder can take
\* the step that releases it; the same for the goroutines at the mutex, and the
\* holder of the mutex can always go on.
C19_LockProgress ==
  /\ \A i \in EntryIds : heap[i].lock /= Nil =>
       /\ pc[heap[i].lock] = "UpdateExp"
       /\ arg[heap[i].lock].e = i
  /\ \A t \in Threads : WaitsForEntry(t) =>
       IF heap[arg[t].e].lock = Nil
         THEN ENABLED (EntryUpdateData(t) \/ EntryRead(t))
         ELSE ENABLED EntryUpdateExp(heap[arg[t].e].lock)
  /\ \A g \in Goroutines : gpc[g] = "lock" =>
       IF mutex = Nil
         THEN ENABLED GoLock(g)
         ELSE ENABLED (GoEvict(mutex) \/ GoUnlock(mutex))
  /\ mutex /= Nil => ENABLED (GoEvict(mutex) \/ GoUnlock(mutex))

\* C20: every shrink pass terminates.  While goroutine g is in the loop it holds
\* the mutex, and the evictions made so far plus the entries left are the
\* entries the pass started with; an iteration runs only while bytesReferenced
\* is over the limit and the list is not empty, and removes exactly one element;
\* once the condition fails nothing more is removed, and the pass leaves the
\* loop only with the condition failed, releasing the mutex.
C20_PassTerminates ==
  [][\A g \in Goroutines :
       /\ gpc[g] = "loop" =>
            /\ mutex = g /\ pass.g = g /\ ~pass.done
            /\ Len(pass.evicted) + Len(lru) = pass.startLen
            /\ lru' /= lru =>
                 /\ bytesReferenced > glimit[g] /\ Len(lru) > 0
                 /\ Len(lru') = Len(lru) - 1
                 /\ Len(pass'.evicted) = Len(pass.evicted) + 1
                 /\ gpc'[g] = "loop"
            /\ ~(bytesReferenced > glimit[g] /\ Len(lru) > 0) => lru' = lru
            /\ gpc'[g] /= "loop" =>
                 /\ ~(bytesReferenced > glimit[g] /\ Len(lru) > 0)
                 /\ gpc'[g] = "recv"
                 /\ mutex' = Nil
                 /\ pass'.done
       /\ gpc'[g] = "loop" =>
            Len(pass'.evicted) + Len(lru') = pass'.startLen]_vars
\* a pass has evicted every entry the cache held when it started
C20_Witness ==
  /\ pass.done
  /\ pass.startLen = 2
  /\ Len(pass.evicted) = 2
  /\ lru = <<>>
  /\ mutex = Nil

====
